---- MODULE Spec2Model ----
(***************************************************************************)
(* Model of the two batch scripts of the repository:                       *)
(*   extract_images.py  (script 1): PDF image extraction into year folders *)
(*   process_files.py   (script 2): text extraction + chat-completion API  *)
(* Strings are sequences of one-character strings, so that the regular     *)
(* expressions, the suffix rule, the f-string formatting and the           *)
(* startswith/endswith tests are computed as the code computes them.       *)
(***************************************************************************)
EXTENDS Integers, Sequences, FiniteSets, TLC

\* ------------------------------------------------------------------ bounds
MaxPdfs == 2
MaxPages == 2
MaxImgs == 2
MaxFolders == 2
MaxFiles == 2

\* ------------------------------------------------------- program constants
MinSize == 50
MaxChars == 15000

\* ----------------------------------------------------------- string helpers
Digits == <<"0", "1", "2", "3", "4", "5", "6", "7", "8", "9">>

IsDigit(c) == c \in {"0", "1", "2", "3", "4", "5", "6", "7", "8", "9"}

\* ord() of the characters that occur in the modelled names
Ord(c) ==
    CASE c = "." -> 46
      [] c = "0" -> 48 [] c = "1" -> 49 [] c = "2" -> 50 [] c = "3" -> 51
      [] c = "4" -> 52 [] c = "5" -> 53 [] c = "9" -> 57
      [] c = "B" -> 66 [] c = "D" -> 68 [] c = "F" -> 70 [] c = "P" -> 80
      [] c = "[" -> 91 [] c = "]" -> 93 [] c = "_" -> 95
      [] c = "a" -> 97 [] c = "b" -> 98 [] c = "c" -> 99 [] c = "d" -> 100
      [] c = "f" -> 102 [] c = "m" -> 109 [] c = "o" -> 111 [] c = "p" -> 112
      [] c = "t" -> 116 [] c = "x" -> 120
      [] OTHER -> 127

\* str.lower() on one character
LowerChar(c) ==
    CASE c = "B" -> "b" [] c = "D" -> "d" [] c = "F" -> "f" [] c = "P" -> "p"
      [] OTHER -> c

Lower(s) == [i \in 1..Len(s) |-> LowerChar(s[i])]

\* Python's "<" on str: lexicographic by code point
RECURSIVE StrLess(_, _)
StrLess(a, b) ==
    IF b = <<>> THEN FALSE
    ELSE IF a = <<>> THEN TRUE
    ELSE IF Ord(a[1]) # Ord(b[1]) THEN Ord(a[1]) < Ord(b[1])
    ELSE StrLess(Tail(a), Tail(b))

\* pathlib PurePath.suffix: from the last dot, unless the dot is first or last
DotPositions(name) == {i \in 1..Len(name) : name[i] = "."}

RDot(name) ==
    IF DotPositions(name) = {} THEN 0
    ELSE CHOOSE i \in DotPositions(name) : \A j \in DotPositions(name) : j <= i

Suffix(name) ==
    IF RDot(name) > 1 /\ RDot(name) < Len(name)
    THEN SubSeq(name, RDot(name), Len(name))
    ELSE <<>>

\* pathlib PurePath.stem: the name without its suffix
Stem(name) ==
    IF RDot(name) > 1 /\ RDot(name) < Len(name)
    THEN SubSeq(name, 1, RDot(name) - 1)
    ELSE name

\* str.startswith("[") and str.endswith("]")
Bracketed(s) == Len(s) > 0 /\ s[1] = "[" /\ s[Len(s)] = "]"

\* str.strip() leaves nothing
Blank(s) == \A i \in 1..Len(s) : s[i] \in {" ", "\n"}

\* f"{n:02d}"
RECURSIVE ToDigits(_)
ToDigits(n) ==
    IF n < 10 THEN <<Digits[n + 1]>>
    ELSE ToDigits(n \div 10) \o <<Digits[(n % 10) + 1]>>

Pad2(n) == IF n < 10 THEN <<"0">> \o ToDigits(n) ELSE ToDigits(n)

\* ------------------------------------------- script 1: file-name patterns
\* end of the greedy \d+ that starts at position i (i - 1 when there is none)
RECURSIVE DigitsEnd(_, _)
DigitsEnd(s, i) ==
    IF i <= Len(s) /\ IsDigit(s[i]) THEN DigitsEnd(s, i + 1) ELSE i - 1

\* r'(20\d{2}|19\d{2})' matches at position i
YearAt(s, i) ==
    /\ i + 3 <= Len(s)
    /\ \/ (s[i] = "2" /\ s[i + 1] = "0")
       \/ (s[i] = "1" /\ s[i + 1] = "9")
    /\ IsDigit(s[i + 2])
    /\ IsDigit(s[i + 3])

YearOf(s) ==
    LET hits == {i \in 1..Len(s) : YearAt(s, i)} IN
    IF hits = {} THEN <<"u", "n", "k", "n", "o", "w", "n">>
    ELSE LET m == CHOOSE i \in hits : \A j \in hits : i <= j
         IN SubSeq(s, m, m + 3)

\* position of the second digit group of r'[pP](\d+)[-_][pP]?(\d+)' for a
\* match that starts at i, given the end j of the first group
Group2Start(s, j) ==
    IF j + 2 <= Len(s) /\ s[j + 2] \in {"p", "P"} THEN j + 3 ELSE j + 2

PageAt(s, i) ==
    /\ s[i] \in {"p", "P"}
    /\ LET j == DigitsEnd(s, i + 1) IN
       /\ j >= i + 1
       /\ j + 1 <= Len(s)
       /\ s[j + 1] \in {"-", "_"}
       /\ Group2Start(s, j) <= Len(s)
       /\ IsDigit(s[Group2Start(s, j)])

PageInfoOf(s) ==
    LET hits == {i \in 1..Len(s) : PageAt(s, i)} IN
    IF hits = {} THEN <<"f", "u", "l", "l">>
    ELSE LET m == CHOOSE i \in hits : \A j \in hits : i <= j
             j == DigitsEnd(s, m + 1)
             k == Group2Start(s, j)
         IN <<"p">> \o SubSeq(s, m + 1, j) \o <<"-", "p">>
                \o SubSeq(s, k, DigitsEnd(s, k))

\* f"{year}_{page_info}_img{img_index + 1:02d}.{image_ext}"
ImgFilename(year, page_info, img_index, ext) ==
    year \o <<"_">> \o page_info \o <<"_", "i", "m", "g">>
         \o Pad2(img_index + 1) \o <<".">> \o ext

\* year_dir / img_filename
ImgPath(year, filename) == [dir |-> year, file |-> filename]

\* img_info dimensions at the threshold and just below it; image_ext value
Dims == {MinSize - 1, MinSize}
Exts == {<<"p", "n", "g">>}

\* names of the PDF files handed to script 1
PdfNames ==
    { <<"2", "0", "2", "3", "_", "p", "2", "-", "p", "3", ".", "p", "d", "f">>,
      <<"2", "0", "2", "3", "_", "P", "2", "_", "3", ".", "p", "d", "f">>,
      <<"k", "a", "i", "h", "o", ".", "p", "d", "f">> }

NoImage == [w |-> 0, h |-> 0, raised |-> FALSE, wrote |-> FALSE, listed |-> FALSE]

VARIABLES
    script,            \* which script runs: 1 = extract_images, 2 = process_files
    pc,                \* position of the running script
    baseExists,        \* base_dir exists
    outExists,         \* output_dir (script 1) exists
    yearDirs,          \* the year sub-directories of output_dir that exist
    opens,             \* every open-for-writing so far: target, directory present
    outcomes,          \* per handled file, in order: "ok" or "fail"
    nSkipped,          \* script 1: files skipped because they do not exist
    nInput,            \* script 1: len(pdf_files); script 2: files listed so far
    pdfsLeft,          \* script 1: files of pdf_files not yet visited
    cur,               \* script 1: pdf_name, year, page_info of the open PDF
    pagesLeft,         \* script 1: pages of doc not yet visited
    imgsLeft,          \* script 1: entries of image_list not yet visited
    img_index,         \* script 1: enumerate index in image_list
    extracted_images,  \* script 1: list built by extract_images_from_pdf
    images,            \* script 1: value returned to main
    results,           \* script 1: main's results list
    total_images,      \* script 1: main's counter
    disk,              \* script 1: image paths written during the run
    saved,             \* script 1: paths written during the current call
    lastImg,           \* script 1: the image handled by the latest step
    log,               \* script 1: entries of the log file
    report,            \* script 2: chunks of the Markdown report
    foldersLeft,       \* script 2: folders not yet visited
    folderNo,          \* script 2: number of the folder being handled
    dirFiles,          \* script 2: names in the folder being handled
    files,             \* script 2: sorted list of process_folder
    queue,             \* script 2: files of the list not yet processed
    folder_results,    \* script 2: results list of process_folder
    events,            \* script 2: API calls and sleeps, in order
    lastFile,          \* script 2: the file handled by the latest step
    nBlocks,           \* script 2: folders with files handled so far
    installed          \* script 2: which of PyPDF2, docx could be imported

vars1 == <<pdfsLeft, cur, pagesLeft, imgsLeft, img_index, extracted_images,
           images, results, total_images, disk, saved, lastImg, log, nSkipped>>

vars2 == <<report, foldersLeft, folderNo, dirFiles, files, queue,
           folder_results, events, lastFile, nBlocks, installed>>

dirvars == <<baseExists, outExists, yearDirs>>

vars == <<script, pc, dirvars, opens, outcomes, nInput, vars1, vars2>>

\* ---------------------------------------------------- script 1: operations
\* line 68: if width < 50 or height < 50: continue
TooSmall(width, height) == width < MinSize \/ height < MinSize

\* lines 79-86: the dict appended to extracted_images (size_kb left out)
ImageEntry(filename, path, pdf_name, width, height) ==
    [filename |-> filename, path |-> path, source_pdf |-> pdf_name,
     width |-> width, height |-> height]

\* lines 94-96: except Exception: print; return []
PdfError(imgs) == [pc |-> "ret", images |-> <<>>]

\* line 107: output_dir.mkdir(exist_ok=True), parents not created
MkdirOutput(base, out) == [ok |-> base, out |-> (base \/ out)]

\* line 47: year_dir.mkdir(parents=True, exist_ok=True)
MkdirYear(dirs, year) == dirs \cup {year}

\* main, lines 102-121
Main1Start ==
    /\ script = 1 /\ pc = "main1"
    /\ LET r == MkdirOutput(baseExists, outExists) IN
       /\ outExists' = r.out
       /\ pc' = IF r.ok THEN "loop" ELSE "crashed"
    /\ UNCHANGED <<script, baseExists, yearDirs, opens, outcomes, nInput,
                   vars1, vars2>>

\* main, lines 123-126: a file that does not exist is skipped
SkipMissingPdf ==
    /\ script = 1 /\ pc = "loop" /\ pdfsLeft > 0
    /\ pdfsLeft' = pdfsLeft - 1
    /\ nSkipped' = nSkipped + 1
    /\ UNCHANGED <<script, pc, dirvars, opens, outcomes, nInput, cur,
                   pagesLeft, imgsLeft, img_index, extracted_images, images,
                   results, total_images, disk, saved, lastImg, log, vars2>>

\* main line 129 and extract_images_from_pdf lines 28-52
OpenPdf ==
    /\ script = 1 /\ pc = "loop" /\ pdfsLeft > 0
    /\ \E name \in PdfNames, openOk \in BOOLEAN, n \in 0..MaxPages :
        LET pdf_name == Stem(name)
            year == YearOf(pdf_name)
            page_info == PageInfoOf(pdf_name)
            err == PdfError(<<>>)
        IN /\ cur' = [pdf_name |-> pdf_name, year |-> year,
                      page_info |-> page_info, failed |-> ~openOk]
           /\ yearDirs' = MkdirYear(yearDirs, year)
           /\ extracted_images' = <<>>
           /\ saved' = {}
           /\ IF openOk
              THEN /\ pc' = "page"
                   /\ pagesLeft' = n
                   /\ images' = images
              ELSE /\ pc' = err.pc
                   /\ pagesLeft' = 0
                   /\ images' = err.images
    /\ lastImg' = NoImage
    /\ UNCHANGED <<script, baseExists, outExists, opens, outcomes, nInput,
                   pdfsLeft, imgsLeft, img_index, results, total_images,
                   disk, log, nSkipped, vars2>>

\* lines 54-55 and 92-98: next page, get_images, or the end of the document
NextPage ==
    /\ script = 1 /\ pc = "page"
    /\ \/ /\ pagesLeft = 0
          /\ images' = extracted_images
          /\ pc' = "ret"
          /\ UNCHANGED <<pagesLeft, imgsLeft, img_index, cur>>
       \/ /\ pagesLeft > 0
          /\ \E n \in 0..MaxImgs :
                /\ imgsLeft' = n
                /\ img_index' = 0
                /\ pagesLeft' = pagesLeft - 1
                /\ pc' = "image"
                /\ UNCHANGED <<images, cur>>
       \/ /\ pagesLeft > 0
          /\ LET err == PdfError(extracted_images) IN
                /\ pc' = err.pc
                /\ images' = err.images
          /\ cur' = [cur EXCEPT !.failed = TRUE]
          /\ UNCHANGED <<pagesLeft, imgsLeft, img_index>>
    /\ UNCHANGED <<script, dirvars, opens, outcomes, nInput, pdfsLeft,
                   extracted_images, results, total_images, disk, saved,
                   lastImg, log, nSkipped, vars2>>

\* lines 57-90: one entry of image_list
NextImage ==
    /\ script = 1 /\ pc = "image"
    /\ \/ /\ imgsLeft = 0
          /\ pc' = "page"
          /\ UNCHANGED <<imgsLeft, img_index, extracted_images, disk, saved,
                         lastImg, opens>>
       \/ /\ imgsLeft > 0
          /\ imgsLeft' = imgsLeft - 1
          /\ img_index' = img_index + 1
          /\ UNCHANGED pc
          /\ \E raised \in BOOLEAN, width \in Dims, height \in Dims,
                image_ext \in Exts :
               LET img_filename == ImgFilename(cur.year, cur.page_info,
                                               img_index, image_ext)
                   img_path == ImgPath(cur.year, img_filename)
               IN IF raised \/ TooSmall(width, height)
                  THEN /\ lastImg' = [w |-> width, h |-> height,
                                      raised |-> raised, wrote |-> FALSE,
                                      listed |-> FALSE]
                       /\ UNCHANGED <<extracted_images, disk, saved, opens>>
                  ELSE /\ opens' = opens \cup
                            {[target |-> "image",
                              dirExisted |-> cur.year \in yearDirs]}
                       /\ disk' = disk \cup {img_path}
                       /\ saved' = saved \cup {img_path}
                       /\ extracted_images' =
                            Append(extracted_images,
                                   ImageEntry(img_filename, img_path,
                                              cur.pdf_name, width, height))
                       /\ lastImg' = [w |-> width, h |-> height,
                                      raised |-> raised, wrote |-> TRUE,
                                      listed |-> TRUE]
    /\ UNCHANGED <<script, dirvars, outcomes, nInput, pdfsLeft, cur,
                   pagesLeft, images, results, total_images, log, nSkipped,
                   vars2>>

\* main, lines 129-136: the returned list is counted and kept
ReturnImages ==
    /\ script = 1 /\ pc = "ret"
    /\ IF images # <<>>
       THEN /\ total_images' = total_images + Len(images)
            /\ results' = results \o images
       ELSE UNCHANGED <<total_images, results>>
    /\ outcomes' = Append(outcomes, IF cur.failed THEN "fail" ELSE "ok")
    /\ pdfsLeft' = pdfsLeft - 1
    /\ pc' = "loop"
    /\ UNCHANGED <<script, dirvars, opens, nInput, cur, pagesLeft, imgsLeft,
                   img_index, extracted_images, images, disk, saved, lastImg,
                   log, nSkipped, vars2>>

\* main, lines 138-153: the log is written when there are results
WriteLog ==
    /\ script = 1 /\ pc = "loop" /\ pdfsLeft = 0
    /\ IF results # <<>>
       THEN /\ opens' = opens \cup
                 {[target |-> "log", dirExisted |-> outExists]}
            /\ log' = results
       ELSE UNCHANGED <<opens, log>>
    /\ pc' = "done"
    /\ UNCHANGED <<script, dirvars, outcomes, nInput, pdfsLeft, cur,
                   pagesLeft, imgsLeft, img_index, extracted_images, images,
                   results, total_images, disk, saved, lastImg, nSkipped,
                   vars2>>

\* ---------------------------------------------------- script 2: operations
\* names that a folder of script 2 may hold
FileNames ==
    { <<"a", ".", "t", "x", "t">>,
      <<"B", ".", "p", "d", "f">>,
      <<"c", ".", "d", "o", "c", "x">>,
      <<"d", ".", "d", "o", "c">>,
      <<".", "p", "d", "f">>,
      <<"m", ".", "m", "d">> }

\* what a file holds (.txt) or what the library reads from it (.pdf, .docx)
Texts == { <<" ">>, <<"a">>, <<"[", "a", "]">> }

\* line 182: the patterns of process_folder, "*" dropped
Patterns ==
    << <<".", "p", "d", "f">>, <<".", "d", "o", "c", "x">>,
       <<".", "d", "o", "c">>, <<".", "t", "x", "t">> >>

\* Path.glob("*" + ext) on one name: the name ends with ext
GlobMatch(name, ext) ==
    /\ Len(name) >= Len(ext)
    /\ SubSeq(name, Len(name) - Len(ext) + 1, Len(name)) = ext

Glob(dir, ext) == {n \in dir : GlobMatch(n, ext)}

\* the orders in which glob may yield the names of a set
Orderings(S) ==
    {f \in [1..Cardinality(S) -> S] : \A i, j \in DOMAIN f : f[i] = f[j] => i = j}

\* lines 181-183: files.extend(folder.glob(ext)) for the four patterns
Listings(dir) ==
    {a \o b \o c \o d : a \in Orderings(Glob(dir, Patterns[1])),
                        b \in Orderings(Glob(dir, Patterns[2])),
                        c \in Orderings(Glob(dir, Patterns[3])),
                        d \in Orderings(Glob(dir, Patterns[4]))}

\* line 185: sorted(files, key=lambda x: x.name), a stable sort
RECURSIVE InsertByName(_, _)
InsertByName(x, s) ==
    IF s = <<>> THEN <<x>>
    ELSE IF StrLess(x, s[1]) THEN <<x>> \o s
    ELSE <<s[1]>> \o InsertByName(x, Tail(s))

RECURSIVE SortInPlace(_)
SortInPlace(s) ==
    IF s = <<>> THEN <<>>
    ELSE InsertByName(s[Len(s)], SortInPlace(SubSeq(s, 1, Len(s) - 1)))

\* variant of SortedByName: the listing is used as glob yields it
Unsorted(s) == s

\* line 185: files = sorted(files, key=lambda x: x.name)
SortedByName(s) == SortInPlace(s)

\* lines 87-88, 103-104: the cut at 15000 characters and the marker after it
Truncated(full_text) ==
    IF Len(full_text) > MaxChars
    THEN SubSeq(full_text, 1, MaxChars)
            \o <<"\n", ".", ".", ".", "[", "omitted", "]", ".", ".", ".">>
    ELSE full_text

\* lines 71-91
extract_text_from_pdf(has, raise, text) ==
    IF ~has THEN <<"[", "PyPDF2-not-installed", "]">>
    ELSE IF raise THEN <<"[", "pdf-read-error", "]">>
    ELSE IF Blank(Truncated(text)) THEN <<"[", "no-text-scanned-pdf", "]">>
    ELSE Truncated(text)

\* lines 94-107
extract_text_from_docx(has, raise, text) ==
    IF ~has THEN <<"[", "python-docx-not-installed", "]">>
    ELSE IF raise THEN <<"[", "docx-read-error", "]">>
    ELSE IF Blank(Truncated(text)) THEN <<"[", "text-empty", "]">>
    ELSE Truncated(text)

\* variant of extract_text: the last branch returns its text without brackets
extract_text_unbracketed(name, inst, raise, text) ==
    LET suffix == Lower(Suffix(name)) IN
    IF suffix = <<".", "p", "d", "f">>
    THEN extract_text_from_pdf("PyPDF2" \in inst, raise, text)
    ELSE IF suffix = <<".", "d", "o", "c", "x">>
    THEN extract_text_from_docx("docx" \in inst, raise, text)
    ELSE IF suffix = <<".", "d", "o", "c">>
    THEN <<"[", ".doc-not-supported", "]">>
    ELSE IF suffix = <<".", "t", "x", "t">>
    THEN IF raise THEN <<"[", "text-read-error", "]">>
         ELSE SubSeq(text, 1, IF Len(text) < MaxChars THEN Len(text) ELSE MaxChars)
    ELSE <<"unsupported-format:">> \o suffix

\* lines 110-127
extract_text(name, inst, raise, text) ==
    LET suffix == Lower(Suffix(name)) IN
    IF suffix = <<".", "p", "d", "f">>
    THEN extract_text_from_pdf("PyPDF2" \in inst, raise, text)
    ELSE IF suffix = <<".", "d", "o", "c", "x">>
    THEN extract_text_from_docx("docx" \in inst, raise, text)
    ELSE IF suffix = <<".", "d", "o", "c">>
    THEN <<"[", ".doc-not-supported", "]">>
    ELSE IF suffix = <<".", "t", "x", "t">>
    THEN IF raise THEN <<"[", "text-read-error", "]">>
         ELSE SubSeq(text, 1, IF Len(text) < MaxChars THEN Len(text) ELSE MaxChars)
    ELSE <<"[", "unsupported-format:">> \o suffix \o <<"]">>

\* the three strings process_file can return, tagged with the file they are for
ErrorSection(name, content) ==
    [kind |-> "error", name |-> name, body |-> content]

ApiErrorSection(name) == [kind |-> "apierror", name |-> name, body |-> <<>>]

ApiResult(name) == [kind |-> "result", name |-> name, body |-> <<>>]

\* variant of process_file: the API error is not caught
process_file_uncaught(name, inst, raise, text, api) ==
    LET content == extract_text(name, inst, raise, text) IN
    IF Bracketed(content)
    THEN [raised |-> FALSE, result |-> ErrorSection(name, content),
          events |-> <<>>, content |-> content]
    ELSE IF api = "ok"
    THEN [raised |-> FALSE, result |-> ApiResult(name),
          events |-> <<"api", "sleep">>, content |-> content]
    ELSE [raised |-> TRUE, result |-> ApiErrorSection(name),
          events |-> <<"api">>, content |-> content]

\* lines 130-169; raised: an exception leaves process_file
process_file(name, inst, raise, text, api) ==
    LET content == extract_text(name, inst, raise, text) IN
    IF Bracketed(content)
    THEN [raised |-> FALSE, result |-> ErrorSection(name, content),
          events |-> <<>>, content |-> content]
    ELSE IF api = "ok"
    THEN [raised |-> FALSE, result |-> ApiResult(name),
          events |-> <<"api", "sleep">>, content |-> content]
    ELSE [raised |-> FALSE, result |-> ApiErrorSection(name),
          events |-> <<"api">>, content |-> content]

\* the chunks the report is made of
OldContent == [kind |-> "old", name |-> <<>>, body |-> <<>>]

Header == [kind |-> "header", name |-> <<>>, body |-> <<>>]

FolderHeader(n) == [kind |-> "folder", name |-> ToDigits(n), body |-> <<>>]

\* lines 222-225: open(output_file, "w") and the three header lines
InitReport(old) == <<Header>>

\* variant of AppendBlock: the file is opened with "w"
WriteOver(old, n, res) == <<FolderHeader(n)>> \o res

\* lines 203-207: open(output_file, "a"), the folder header, the joined results
AppendBlock(old, n, res) == old \o <<FolderHeader(n)>> \o res

NoFile == [name |-> <<>>, content |-> <<>>, text |-> <<>>, raise |-> FALSE,
           calls |-> 0, result |-> Header, seen |-> FALSE]

\* folders as the directory listing may find them: at most MaxFiles names
Folders == {d \in SUBSET FileNames : Cardinality(d) <= MaxFiles}

\* main, lines 213-225
Main2Init ==
    /\ script = 2 /\ pc = "main2"
    /\ opens' = opens \cup {[target |-> "report", dirExisted |-> baseExists]}
    /\ IF baseExists
       THEN /\ report' = InitReport(report)
            /\ pc' = "folders"
       ELSE /\ pc' = "crashed"
            /\ UNCHANGED report
    /\ UNCHANGED <<script, dirvars, outcomes, nInput, vars1, foldersLeft,
                   folderNo, dirFiles, files, queue, folder_results, events,
                   lastFile, nBlocks, installed>>

\* main lines 246-251 and process_folder lines 174-194: a folder without files
SkipFolder ==
    /\ script = 2 /\ pc = "folders" /\ foldersLeft > 0
    /\ foldersLeft' = foldersLeft - 1
    /\ folderNo' = folderNo + 1
    /\ UNCHANGED <<script, pc, dirvars, opens, outcomes, nInput, vars1,
                   report, dirFiles, files, queue, folder_results, events,
                   lastFile, nBlocks, installed>>

\* main lines 246-249 and process_folder lines 174-196: a folder with files
BeginFolder ==
    /\ script = 2 /\ pc = "folders" /\ foldersLeft > 0
    /\ \E dir \in Folders :
        \E listing \in Listings(dir) :
            /\ listing # <<>>
            /\ dirFiles' = dir
            /\ files' = SortedByName(listing)
            /\ queue' = SortedByName(listing)
            /\ nInput' = nInput + Len(listing)
    /\ folder_results' = <<>>
    /\ folderNo' = folderNo + 1
    /\ pc' = "files"
    /\ UNCHANGED <<script, dirvars, opens, outcomes, vars1, report,
                   foldersLeft, events, lastFile, nBlocks, installed>>

\* process_folder lines 197-200: one call of process_file
ProcessNextFile ==
    /\ script = 2 /\ pc = "files" /\ queue # <<>>
    /\ \E raise \in BOOLEAN, text \in Texts, api \in {"ok", "error"} :
        LET r == process_file(Head(queue), installed, raise, text, api) IN
        /\ lastFile' = [name |-> Head(queue), content |-> r.content,
                        text |-> text, raise |-> raise,
                        calls |-> IF r.events = <<>> THEN 0 ELSE 1,
                        result |-> r.result, seen |-> TRUE]
        /\ events' = events \o r.events
        /\ IF r.raised
           THEN /\ pc' = "aborted"
                /\ UNCHANGED <<folder_results, queue, outcomes>>
           ELSE /\ folder_results' = Append(folder_results, r.result)
                /\ queue' = Tail(queue)
                /\ outcomes' = Append(outcomes,
                       IF r.result.kind = "result" THEN "ok" ELSE "fail")
                /\ UNCHANGED pc
    /\ UNCHANGED <<script, dirvars, opens, nInput, vars1, report,
                   foldersLeft, folderNo, dirFiles, files, nBlocks,
                   installed>>

\* process_folder lines 202-209
WriteFolder ==
    /\ script = 2 /\ pc = "files" /\ queue = <<>>
    /\ opens' = opens \cup {[target |-> "report", dirExisted |-> baseExists]}
    /\ report' = AppendBlock(report, folderNo, folder_results)
    /\ nBlocks' = nBlocks + 1
    /\ pc' = "written"
    /\ UNCHANGED <<script, dirvars, outcomes, nInput, vars1, foldersLeft,
                   folderNo, dirFiles, files, queue, folder_results, events,
                   lastFile, installed>>

\* main line 246: back in the loop over the folders
EndFolder ==
    /\ script = 2 /\ pc = "written"
    /\ foldersLeft' = foldersLeft - 1
    /\ lastFile' = NoFile
    /\ pc' = "folders"
    /\ UNCHANGED <<script, dirvars, opens, outcomes, nInput, vars1, report,
                   folderNo, dirFiles, files, queue, folder_results, events,
                   nBlocks, installed>>

\* main lines 253-256
Finish2 ==
    /\ script = 2 /\ pc = "folders" /\ foldersLeft = 0
    /\ pc' = "done"
    /\ UNCHANGED <<script, dirvars, opens, outcomes, nInput, vars1, vars2>>

\* ------------------------------------------------------------ specification
Init ==
    /\ script \in {1, 2}
    /\ pc = IF script = 1 THEN "main1" ELSE "main2"
    /\ baseExists \in BOOLEAN
    /\ outExists \in IF script = 1 /\ baseExists THEN BOOLEAN ELSE {FALSE}
    /\ yearDirs \in IF outExists THEN {{}, {<<"2", "0", "2", "3">>}} ELSE {{}}
    /\ opens = {}
    /\ outcomes = <<>>
    /\ nSkipped = 0
    /\ pdfsLeft \in IF script = 1 THEN 0..MaxPdfs ELSE {0}
    /\ nInput = pdfsLeft
    /\ cur = [pdf_name |-> <<>>, year |-> <<>>, page_info |-> <<>>,
              failed |-> FALSE]
    /\ pagesLeft = 0
    /\ imgsLeft = 0
    /\ img_index = 0
    /\ extracted_images = <<>>
    /\ images = <<>>
    /\ results = <<>>
    /\ total_images = 0
    /\ disk = {}
    /\ saved = {}
    /\ lastImg = NoImage
    /\ log = <<>>
    /\ report \in IF script = 2 /\ baseExists THEN {<<>>, <<OldContent>>}
                  ELSE {<<>>}
    /\ foldersLeft \in IF script = 2 THEN 0..MaxFolders ELSE {0}
    /\ folderNo = 0
    /\ dirFiles = {}
    /\ files = <<>>
    /\ queue = <<>>
    /\ folder_results = <<>>
    /\ events = <<>>
    /\ lastFile = NoFile
    /\ nBlocks = 0
    /\ installed \in IF script = 2 THEN {{}, {"PyPDF2", "docx"}} ELSE {{}}

Next ==
    \/ Main1Start
    \/ SkipMissingPdf
    \/ OpenPdf
    \/ NextPage
    \/ NextImage
    \/ ReturnImages
    \/ WriteLog
    \/ Main2Init
    \/ SkipFolder
    \/ BeginFolder
    \/ ProcessNextFile
    \/ WriteFolder
    \/ EndFolder
    \/ Finish2

Spec == Init /\ [][Next]_vars

\* ------------------------------------------------------------------ claims
IsPrefix(a, b) == Len(a) <= Len(b) /\ SubSeq(b, 1, Len(a)) = a

FolderHeaders == {i \in 1..Len(report) : report[i].kind = "folder"}

\* the entries written after the latest folder header of the report
LastBlock ==
    LET k == CHOOSE i \in FolderHeaders : \A j \in FolderHeaders : j <= i
    IN SubSeq(report, k + 1, Len(report))

Matching(dir) == {n \in dir : \E i \in 1..Len(Patterns) : GlobMatch(n, Patterns[i])}

Supported == {<<".", "p", "d", "f">>, <<".", "d", "o", "c", "x">>,
              <<".", "t", "x", "t">>}

\* the strings extract_text and its two helpers make themselves
Placeholders(name) ==
    { <<"[", "PyPDF2-not-installed", "]">>, <<"[", "pdf-read-error", "]">>,
      <<"[", "no-text-scanned-pdf", "]">>,
      <<"[", "python-docx-not-installed", "]">>,
      <<"[", "docx-read-error", "]">>, <<"[", "text-empty", "]">>,
      <<"[", ".doc-not-supported", "]">>, <<"[", "text-read-error", "]">>,
      <<"[", "unsupported-format:">> \o Lower(Suffix(name)) \o <<"]">> }

\* C1: a failure while handling one file never aborts the batch: no exception
\* leaves the per-file handling, and at the end of the run every listed file
\* was handled and the final write was made
C1_NoAbort ==
    /\ pc # "aborted"
    /\ (script = 1 /\ pc = "done") =>
          /\ Len(outcomes) + nSkipped = nInput
          /\ results # <<>> => log = results
    /\ (script = 2 /\ pc = "written") => Len(folder_results) = Len(files)
    /\ (script = 2 /\ pc = "done") =>
          /\ Len(outcomes) = nInput
          /\ Cardinality(FolderHeaders) = nBlocks

C1_Witness ==
    /\ pc = "done"
    /\ script = 2
    /\ \E i, j \in 1..Len(outcomes) :
          i < j /\ outcomes[i] = "fail" /\ outcomes[j] = "ok"

\* C2: the block appended for a folder holds exactly one entry per matching
\* file of the folder, none twice, in ascending order of file name
C2_OneSectionPerFileSorted ==
    pc = "written" =>
        /\ Len(LastBlock) = Cardinality(Matching(dirFiles))
        /\ {LastBlock[i].name : i \in 1..Len(LastBlock)} = Matching(dirFiles)
        /\ \A i \in 1..Len(LastBlock) :
              LastBlock[i].kind \in {"error", "apierror", "result"}
        /\ \A i, j \in 1..Len(LastBlock) :
              i < j => StrLess(LastBlock[i].name, LastBlock[j].name)

C2_Witness ==
    /\ pc = "written"
    /\ Len(LastBlock) = 2
    /\ LastBlock[1].name = <<"a", ".", "t", "x", "t">>
    /\ LastBlock[1].kind = "result"
    /\ LastBlock[2].name = <<"c", ".", "d", "o", "c", "x">>
    /\ LastBlock[2].kind = "error"

\* C3 as stated: no step of script 2 removes or rewrites report content; the
\* previous content is always a prefix of the new content
C3_AppendOnly == [][IsPrefix(report, report')]_vars

\* C3 amended: every step after main's initialisation of the output file
\* keeps the previous content of the report as a prefix of the new content
C3_AppendOnlyAfterInit == [][pc # "main2" => IsPrefix(report, report')]_vars

C3_Witness ==
    /\ pc = "written"
    /\ nBlocks = 2
    /\ Cardinality(FolderHeaders) = 2
    /\ Len(report) >= 5

\* C4: between any two consecutive API calls a sleep is executed
C4_SleepBetweenCalls ==
    \A i \in 1..Len(events) - 1 : events[i] = "api" => events[i + 1] = "sleep"

\* C5: an image is written and listed only if width >= 50 and height >= 50,
\* and an image of that size whose extraction does not raise is written and
\* is in the list extract_images_from_pdf returns
C5_ThresholdFilter ==
    /\ (lastImg.wrote \/ lastImg.listed) =>
          (lastImg.w >= MinSize /\ lastImg.h >= MinSize)
    /\ (lastImg.w >= MinSize /\ lastImg.h >= MinSize /\ ~lastImg.raised) =>
          (lastImg.wrote /\ lastImg.listed)
    /\ \A i \in 1..Len(extracted_images) :
          /\ extracted_images[i].width >= MinSize
          /\ extracted_images[i].height >= MinSize
    /\ pc = "ret" =>
          \A p \in saved : \E i \in 1..Len(images) : images[i].path = p

\* C6: a file whose lower-cased suffix is not .pdf, .docx or .txt gets a
\* bracketed placeholder from extract_text, nothing is raised, and
\* process_file returns the error section without calling the API
C6_UnsupportedPlaceholder ==
    (lastFile.seen /\ Lower(Suffix(lastFile.name)) \notin Supported) =>
        /\ pc # "aborted"
        /\ Bracketed(lastFile.content)
        /\ lastFile.calls = 0
        /\ lastFile.result = ErrorSection(lastFile.name, lastFile.content)

C6_Witness ==
    /\ lastFile.seen
    /\ lastFile.name = <<".", "p", "d", "f">>
    /\ Suffix(lastFile.name) = <<>>
    /\ lastFile.result.kind = "error"

\* C7: whenever a file is opened for writing, its directory exists
C7_DirExistsBeforeWrite == \A o \in opens : o.dirExisted

\* C8: any two entries of the results have distinct paths, so the recorded
\* entries and the image files written for them are equally many
C8_NoOverwrite ==
    /\ \A i, j \in 1..Len(results) :
          i # j => results[i].path # results[j].path
    /\ Cardinality({p \in disk : \E i \in 1..Len(results) :
                                    results[i].path = p}) = Len(results)

\* C9: at the end of a run of script 1 every image file written during the
\* run has an entry in the results list
C9_LogAccountsForWrites ==
    (script = 1 /\ pc = "done") =>
        \A p \in disk : \E i \in 1..Len(results) : results[i].path = p

\* C10: a file whose text was read and is not empty is sent to the API exactly
\* once, and the error section is returned only for a string that
\* extract_text made itself
C10_ErrorOnlyWhenExtractionFailed ==
    lastFile.seen =>
        /\ ( /\ Lower(Suffix(lastFile.name)) = <<".", "t", "x", "t">>
             /\ ~lastFile.raise
             /\ lastFile.text # <<>> ) => lastFile.calls = 1
        /\ lastFile.result.kind = "error" =>
              lastFile.content \in Placeholders(lastFile.name)

====
